---------------------------- MODULE Spec2Model ----------------------------
(* A model of src/test_ws_analysis.py: the WebSocket quote classifier.     *)
(* One capture session: connect, the receive loop that fills the per-symbol *)
(* buffers under an overall deadline, the four analyzers and the verdict.   *)
(*                                                                          *)
(* Units.  Prices are integers counting 1/MICRO of 1e-6 (MICRO = 5, so a    *)
(* price unit is 2e-7 and round(x, 6) is never a tie).  Timestamps and the  *)
(* session clock are integers counting 1/SECOND of a second.                *)
(* Strings that the code searches for a marker (evidence messages, symbol   *)
(* names) are sequences of atoms; CHECK, WARN and CROSS are the atoms of    *)
(* the three marker emoji.                                                  *)
EXTENDS Integers, Sequences, FiniteSets, TLC

\* ------------------------------------------------------------------ bounds
MaxCapture == 2     \* CAPTURE_COUNT values the session specification runs with
MaxTimeout == 6     \* TIMEOUT (seconds) the session specification runs with
MaxTicks   == 7     \* accepted tick messages per session
MaxLen     == 5     \* ticks per symbol in the analyzers' enumerated inputs

\* ------------------------------------------------------- program constants
CAPTURE_COUNT == 20
TIMEOUT       == 30
RECV_TIMEOUT  == 5
LOG_FIRST     == 5
MICRO         == 5
SECOND        == 2

CHECK == "CHECK"
WARN  == "WARN"
CROSS == "CROSS"
Absent == "absent"

\* ----------------------------------------------------------------- helpers
Min(a, b) == IF a < b THEN a ELSE b

Range(s) == {s[i] : i \in DOMAIN s}

RECURSIVE SumSeq(_)
SumSeq(s) == IF s = <<>> THEN 0 ELSE Head(s) + SumSeq(Tail(s))

\* The keys of a dict filled by iterating over s: distinct values of s in the
\* order of their first occurrence.
RECURSIVE DistinctInOrder(_)
DistinctInOrder(s) ==
    IF s = <<>> THEN <<>>
    ELSE LET front == DistinctInOrder(SubSeq(s, 1, Len(s) - 1))
             last  == s[Len(s)]
         IN  IF last \in Range(front) THEN front ELSE Append(front, last)

\* sorted(): ascending insertion sort.
RECURSIVE Insert(_, _)
Insert(x, s) ==
    IF s = <<>> THEN <<x>>
    ELSE IF x <= Head(s) THEN <<x>> \o s
    ELSE <<Head(s)>> \o Insert(x, Tail(s))

RECURSIVE Sorted(_)
Sorted(s) == IF s = <<>> THEN <<>> ELSE Insert(Head(s), Sorted(Tail(s)))

\* round(x, 6) on a price difference given in price units: the nearest
\* multiple of MICRO (no ties, MICRO is odd).
Round6(x) == MICRO * ((x + (MICRO \div 2)) \div MICRO)

\* `marker in text`
Contains(text, atom) == \E i \in DOMAIN text : text[i] = atom

\* ------------------------------------------------------------------- state
VARIABLES
    pc,                \* position of the session in capture_and_analyze / __main__
    conn,              \* the websocket: "none", "open", "closed"
    connect_attempts,  \* calls of websockets.connect
    clock,             \* (datetime.now() - start), capped just past the deadline
    capture_count,     \* configuration: CAPTURE_COUNT of this session
    timeout,           \* configuration: TIMEOUT of this session
    captured_ticks,    \* dict symbol -> list of ticks, as a list of entries in key order
    total_tick_count,
    symbols,           \* analysis['symbols']
    lp_sources,        \* analysis['lp_sources']
    evidence,          \* analysis['evidence']
    verdict,
    exit_code,         \* "running" until the process ends, then 0 or 1
    loop_exit,         \* how the receive loop ended
    invoked,           \* history: the analysis functions called so far
    arrived,           \* history: accepted tick messages per symbol
    dropped            \* history: the labels of the accepted ticks that were not stored

vars == <<pc, conn, connect_attempts, clock, capture_count, timeout,
          captured_ticks, total_tick_count, symbols, lp_sources, evidence,
          verdict, exit_code, loop_exit, invoked, arrived, dropped>>

captureVars  == <<captured_ticks, total_tick_count, symbols, arrived, dropped>>
analysisVars == <<lp_sources, evidence, verdict, invoked>>
configVars   == <<capture_count, timeout>>

\* ----------------------------------------------------------------- symbols
EURUSD == <<"EURUSD">>
GBPUSD == <<"GBPUSD">>
USDJPY == <<"USDJPY">>
OKCOIN == <<CHECK, "COIN">>      \* a symbol whose name has the check-mark emoji in it

Symbols == {EURUSD, GBPUSD, USDJPY, OKCOIN}

\* ------------------------------------------------------- the capture buffers
Keys(ct) == [i \in DOMAIN ct |-> ct[i].symbol]

HasKey(ct, sym) == \E i \in DOMAIN ct : ct[i].symbol = sym

\* captured_ticks[sym] without creating the key
TicksOf(ct, sym) ==
    IF HasKey(ct, sym)
    THEN ct[CHOOSE i \in DOMAIN ct : ct[i].symbol = sym].ticks
    ELSE <<>>

\* Store with the bug of overwriting the newest stored tick once the list is full
StoreReplacing(ct, sym, tick, cap) ==
    LET withKey == IF HasKey(ct, sym) THEN ct
                   ELSE Append(ct, [symbol |-> sym, ticks |-> <<>>])
    IN  [i \in DOMAIN withKey |->
            IF withKey[i].symbol # sym THEN withKey[i]
            ELSE IF Len(withKey[i].ticks) < cap
                 THEN [withKey[i] EXCEPT !.ticks = Append(@, tick)]
                 ELSE [withKey[i] EXCEPT !.ticks = [@ EXCEPT ![Len(@)] = tick]]]

\* lines 228-229: the defaultdict lookup creates the key, then the tick is
\* appended if the list is shorter than CAPTURE_COUNT.
Store(ct, sym, tick, cap) ==
    LET withKey == IF HasKey(ct, sym) THEN ct
                   ELSE Append(ct, [symbol |-> sym, ticks |-> <<>>])
    IN  [i \in DOMAIN withKey |->
            IF withKey[i].symbol = sym /\ Len(withKey[i].ticks) < cap
            THEN [withKey[i] EXCEPT !.ticks = Append(@, tick)]
            ELSE withKey[i]]

\* line 254: all_ticks
RECURSIVE Flatten(_)
Flatten(ct) == IF ct = <<>> THEN <<>> ELSE Head(ct).ticks \o Flatten(Tail(ct))

\* line 237
symbols_with_enough(ct, cap) ==
    Cardinality({i \in DOMAIN ct : Len(ct[i].ticks) >= cap})

\* EnoughData with the bug of waiting for every symbol seen
EnoughDataAllSymbols(ct, syms, total, cap) ==
    /\ symbols_with_enough(ct, cap) >= Cardinality(syms)
    /\ total >= cap

\* line 238
EnoughData(ct, syms, total, cap) ==
    /\ symbols_with_enough(ct, cap) >= Min(3, Cardinality(syms))
    /\ total >= cap


\* ------------------------------------------------------ the inbound messages
\* A message is text that is not JSON ("notjson"), JSON that is no object
\* ("nonobject"), or a JSON object; an object has a type and, when it is a
\* tick, may lack one of the fields the code reads (missing).
FeedLabels == {"SIMULATED", "YOFX"}
Fields     == {"symbol", "bid", "ask", "timestamp"}

TickMessage(sym, lp, missing) ==
    [form |-> "object", type |-> "tick", symbol |-> sym, lp |-> lp,
     missing |-> missing, bid |-> 0, ask |-> MICRO, timestamp |-> 0]

Messages ==
    {[form |-> "notjson"], [form |-> "nonobject"],
     [form |-> "object", type |-> "heartbeat"]}
    \cup {TickMessage(EURUSD, lp, "none") : lp \in FeedLabels}
    \cup {TickMessage(GBPUSD, "YOFX", "none"), TickMessage(USDJPY, Absent, "none"),
          TickMessage(OKCOIN, "YOFX", "none")}
    \cup {TickMessage(EURUSD, "YOFX", f) : f \in Fields}

\* The seconds a read that returns a message may have waited (less than the
\* read timeout).
Delays == {0, 3 * SECOND}

\* The tick as stored: the parsed object, tagged with its arrival number
\* among the accepted ticks of its symbol (history, not read by the code).
Stored(m, n) ==
    [symbol |-> m.symbol, lp |-> m.lp, missing |-> m.missing, bid |-> m.bid,
     ask |-> m.ask, timestamp |-> m.timestamp, seq |-> n]

\* ------------------------------------------------------------ the analyzers
\* line 39: tick.get('lp', 'UNKNOWN')
LpOf(t) == IF t.lp = Absent THEN "UNKNOWN" ELSE t.lp

\* LpKeys with the bug of one key per tick
LpKeysPerTick(ticks) == [i \in DOMAIN ticks |-> LpOf(ticks[i])]

\* lines 37-41: the labels in first-seen order (the keys of lp_counts)
LpKeys(ticks) == DistinctInOrder([i \in DOMAIN ticks |-> LpOf(ticks[i])])

\* lines 47-50
LpMessage(lp) ==
    IF lp = "SIMULATED" THEN <<<<CROSS, " LP field shows SIMULATED">>>>
    ELSE IF lp = "YOFX" THEN <<<<CHECK, " LP field shows YOFX">>>>
    ELSE <<>>

RECURSIVE LpEvidence(_)
LpEvidence(keys) ==
    IF keys = <<>> THEN <<>> ELSE LpMessage(Head(keys)) \o LpEvidence(Tail(keys))

\* lines 57-59 and 124-126: by_symbol, as the list of its items
SymbolsOf(ticks) == DistinctInOrder([i \in DOMAIN ticks |-> ticks[i].symbol])

Group(ticks, sym) == SelectSeq(ticks, LAMBDA t : t.symbol = sym)

Reads(ticks, field) == \A i \in DOMAIN ticks : ticks[i].missing # field

\* lines 66-69
PriceChanges(st) == [i \in 1 .. (Len(st) - 1) |-> st[i + 1].bid - st[i].bid]

\* line 72
UniqueChanges(st) == Cardinality({Round6(c) : c \in Range(PriceChanges(st))})

\* LowRegularity with the bug of a non-strict threshold
LowRegularityInclusive(st) == 2 * UniqueChanges(st) <= Len(PriceChanges(st))

\* line 80: unique_changes / len(price_changes) < 0.5
LowRegularity(st) == 2 * UniqueChanges(st) < Len(PriceChanges(st))

\* lines 61-83, one symbol
PriceMessage(sym, st) ==
    IF Len(st) < 3 THEN <<>>
    ELSE IF LowRegularity(st)
         THEN << <<WARN, " ">> \o sym \o <<": Low regularity ratio">> >>
         ELSE << <<CHECK, " ">> \o sym \o <<": High price variation">> >>

RECURSIVE PriceEvidenceOver(_, _)
PriceEvidenceOver(ticks, syms) ==
    IF syms = <<>> THEN <<>>
    ELSE PriceMessage(Head(syms), Group(ticks, Head(syms)))
         \o PriceEvidenceOver(ticks, Tail(syms))

PriceEvidence(ticks) == PriceEvidenceOver(ticks, SymbolsOf(ticks))

\* tick['bid'] raises KeyError in a symbol the analyzer does not skip
PriceRaises(ticks) ==
    \E i \in DOMAIN ticks :
        /\ ticks[i].missing = "bid"
        /\ Len(Group(ticks, ticks[i].symbol)) >= 3

\* lines 94-95
Gaps(ticks) ==
    LET timestamps == Sorted([i \in DOMAIN ticks |-> ticks[i].timestamp])
    IN  [i \in 1 .. (Len(timestamps) - 1) |-> timestamps[i + 1] - timestamps[i]]

\* RegularGaps with the bug of a mean gap of exactly one second counting as
\* sub-second
RegularGapsInclusive(gaps) ==
    /\ 10 * Cardinality(Range(gaps)) < 3 * Len(gaps)
    /\ SumSeq(gaps) <= SECOND * Len(gaps)

\* line 110: unique_gaps / len(gaps) < 0.3 and mean(gaps) < 1
RegularGaps(gaps) ==
    /\ 10 * Cardinality(Range(gaps)) < 3 * Len(gaps)
    /\ SumSeq(gaps) < SECOND * Len(gaps)

\* lines 97-113
TimestampEvidence(ticks) ==
    LET gaps == Gaps(ticks)
    IN  IF gaps = <<>> THEN <<>>
        ELSE IF RegularGaps(gaps)
             THEN <<<<WARN, " Very regular timestamp intervals">>>>
             ELSE <<<<CHECK, " Irregular timestamp intervals">>>>

\* lines 129-130
UniqueSpreads(st) == Cardinality({Round6(st[i].ask - st[i].bid) : i \in DOMAIN st})

\* ConsistentSpread with the bug of a consistency of exactly 0.95 counting
ConsistentSpreadInclusive(st) == 100 * (Len(st) - UniqueSpreads(st)) >= 95 * Len(st)

\* lines 131 and 138: 1 - unique_spreads / len(spreads) > 0.95
ConsistentSpread(st) == 100 * (Len(st) - UniqueSpreads(st)) > 95 * Len(st)

\* SpreadMessage with the bug of the price analyzer's minimum-count guard
SpreadMessageGuarded(sym, st) ==
    IF Len(st) < 3 THEN <<>>
    ELSE IF ConsistentSpread(st)
         THEN << <<WARN, " ">> \o sym \o <<": Perfectly consistent spread">> >>
         ELSE << <<CHECK, " ">> \o sym \o <<": Variable spread">> >>

\* lines 128-141, one symbol
SpreadMessage(sym, st) ==
    IF ConsistentSpread(st)
    THEN << <<WARN, " ">> \o sym \o <<": Perfectly consistent spread">> >>
    ELSE << <<CHECK, " ">> \o sym \o <<": Variable spread">> >>

RECURSIVE SpreadEvidenceOver(_, _)
SpreadEvidenceOver(ticks, syms) ==
    IF syms = <<>> THEN <<>>
    ELSE SpreadMessage(Head(syms), Group(ticks, Head(syms)))
         \o SpreadEvidenceOver(ticks, Tail(syms))

SpreadEvidence(ticks) == SpreadEvidenceOver(ticks, SymbolsOf(ticks))

\* lines 154-155
simulated_indicators(ev) ==
    Cardinality({i \in DOMAIN ev : Contains(ev[i], WARN) \/ Contains(ev[i], CROSS)})

real_indicators(ev) == Cardinality({i \in DOMAIN ev : Contains(ev[i], CHECK)})

\* Verdict with the bug of testing the gateway rule before the marker rule
VerdictRealFirst(labels, ev) ==
    IF "YOFX" \in labels /\ real_indicators(ev) > simulated_indicators(ev) THEN "REAL"
    ELSE IF "SIMULATED" \in labels THEN "SIMULATED"
    ELSE IF simulated_indicators(ev) > real_indicators(ev) THEN "LIKELY_SIMULATED"
    ELSE "INCONCLUSIVE"

\* lines 167-183
Verdict(labels, ev) ==
    IF "SIMULATED" \in labels THEN "SIMULATED"
    ELSE IF "YOFX" \in labels /\ real_indicators(ev) > simulated_indicators(ev)
         THEN "REAL"
    ELSE IF simulated_indicators(ev) > real_indicators(ev) THEN "LIKELY_SIMULATED"
    ELSE "INCONCLUSIVE"

\* ------------------------------------------------------------- the session
NoVerdict == "none"
Running   == "running"

Fresh ==
    /\ pc = "connect"
    /\ conn = "none"
    /\ connect_attempts = 0
    /\ clock = 0
    /\ captured_ticks = <<>>
    /\ total_tick_count = 0
    /\ symbols = {}
    /\ lp_sources = {}
    /\ evidence = <<>>
    /\ verdict = NoVerdict
    /\ exit_code = Running
    /\ loop_exit = "none"
    /\ invoked = {}
    /\ arrived = [sym \in Symbols |-> 0]
    /\ dropped = {}

\* lines 17-30, with the configuration scaled to the bounds
Init ==
    /\ Fresh
    /\ capture_count \in 1 .. MaxCapture
    /\ timeout = MaxTimeout

Capturing == pc \in {"check", "recv"}

\* The session ends on line 249 (sys.exit(1)): the exception has left the
\* `async with` block, which closed the connection.
Abort ==
    /\ pc' = "exit"
    /\ conn' = "closed"
    /\ exit_code' = 1
    /\ loop_exit' = "error"

Advance(d) == clock' = Min(clock + d, timeout * SECOND + 1)

\* line 205, the connect succeeds; line 209
ConnectOk ==
    /\ pc = "connect"
    /\ connect_attempts' = connect_attempts + 1
    /\ conn' = "open"
    /\ pc' = "check"
    /\ UNCHANGED <<clock, configVars, captureVars, analysisVars, exit_code, loop_exit>>

\* line 205, the connect raises; lines 247-249
ConnectFail ==
    /\ pc = "connect"
    /\ connect_attempts' = connect_attempts + 1
    /\ conn' = "none"
    /\ pc' = "exit"
    /\ exit_code' = 1
    /\ loop_exit' = "error"
    /\ UNCHANGED <<clock, configVars, captureVars, analysisVars>>

\* lines 213-215: the deadline check at the top of the loop
CheckDeadline ==
    /\ pc = "check"
    /\ IF clock > timeout * SECOND
       THEN /\ pc' = "disconnected"
            /\ conn' = "closed"
            /\ loop_exit' = "deadline"
       ELSE /\ pc' = "recv"
            /\ UNCHANGED <<conn, loop_exit>>
    /\ UNCHANGED <<connect_attempts, clock, configVars, captureVars, analysisVars,
                   exit_code>>

\* RecvTimeout with the bug of treating the read timeout as the end of the capture
RecvTimeoutStops ==
    /\ pc = "recv"
    /\ Advance(RECV_TIMEOUT * SECOND)
    /\ pc' = "disconnected"
    /\ conn' = "closed"
    /\ loop_exit' = "deadline"
    /\ UNCHANGED <<connect_attempts, configVars, captureVars, analysisVars, exit_code>>

\* lines 219 and 241-242: no message within the read timeout
RecvTimeout ==
    /\ pc = "recv"
    /\ Advance(RECV_TIMEOUT * SECOND)
    /\ pc' = "check"
    /\ UNCHANGED <<conn, connect_attempts, configVars, captureVars, analysisVars,
                   exit_code, loop_exit>>

\* lines 220 and 243-245: json.loads raises JSONDecodeError
RecvNotJson(m, d) ==
    /\ pc = "recv"
    /\ m.form = "notjson"
    /\ Advance(d)
    /\ pc' = "check"
    /\ UNCHANGED <<conn, connect_attempts, configVars, captureVars, analysisVars,
                   exit_code, loop_exit>>

\* line 222 on a JSON value without .get: AttributeError, caught on line 247
RecvNonObject(m, d) ==
    /\ pc = "recv"
    /\ m.form = "nonobject"
    /\ Advance(d)
    /\ Abort
    /\ UNCHANGED <<connect_attempts, configVars, captureVars, analysisVars>>

\* line 222, the type is not "tick"
RecvOther(m, d) ==
    /\ pc = "recv"
    /\ m.form = "object"
    /\ m.type # "tick"
    /\ Advance(d)
    /\ pc' = "check"
    /\ UNCHANGED <<conn, connect_attempts, configVars, captureVars, analysisVars,
                   exit_code, loop_exit>>

\* lines 222-239: a tick.  The counter is incremented first; a tick without
\* a symbol raises KeyError on line 224, and one of the first LOG_FIRST
\* ticks without bid, ask or timestamp raises it on lines 233-234, after the
\* tick was stored.
RecvTick(m, d) ==
    /\ pc = "recv"
    /\ m.form = "object"
    /\ m.type = "tick"
    /\ total_tick_count < MaxTicks
    /\ Advance(d)
    /\ total_tick_count' = total_tick_count + 1
    /\ IF m.missing = "symbol"
       THEN /\ Abort
            /\ UNCHANGED <<captured_ticks, symbols, arrived, dropped>>
       ELSE /\ symbols' = symbols \cup {m.symbol}
            /\ arrived' = [arrived EXCEPT ![m.symbol] = @ + 1]
            /\ dropped' = IF Len(TicksOf(captured_ticks, m.symbol)) < capture_count
                          THEN dropped
                          ELSE dropped \cup {LpOf(m)}
            /\ captured_ticks' = Store(captured_ticks, m.symbol,
                                       Stored(m, arrived[m.symbol] + 1), capture_count)
            /\ IF total_tick_count' <= LOG_FIRST /\ m.missing # "none"
               THEN Abort
               ELSE IF EnoughData(captured_ticks', symbols', total_tick_count',
                                  capture_count)
                    THEN /\ pc' = "disconnected"
                         /\ conn' = "closed"
                         /\ loop_exit' = "complete"
                         /\ UNCHANGED exit_code
                    ELSE /\ pc' = "check"
                         /\ UNCHANGED <<conn, exit_code, loop_exit>>
    /\ UNCHANGED <<connect_attempts, configVars, analysisVars>>

\* line 219, recv raises (the peer closed the connection); lines 247-249
RecvError ==
    /\ pc = "recv"
    /\ Abort
    /\ UNCHANGED <<connect_attempts, clock, configVars, captureVars, analysisVars>>

\* Interrupt with the bug of a connection that is not scoped by `async with`
InterruptLeavesOpen ==
    /\ pc \in {"connect", "check", "recv"}
    /\ pc' = "exit"
    /\ exit_code' = 0
    /\ loop_exit' = "interrupt"
    /\ UNCHANGED <<conn, connect_attempts, clock, configVars, captureVars, analysisVars>>

\* lines 266-271: KeyboardInterrupt while connecting or capturing.  asyncio.run
\* cancels the task, the `async with` block closes the connection on the way
\* out, and __main__ exits with 0.
Interrupt ==
    /\ pc \in {"connect", "check", "recv"}
    /\ pc' = "exit"
    /\ conn' = IF conn = "open" THEN "closed" ELSE conn
    /\ exit_code' = 0
    /\ loop_exit' = "interrupt"
    /\ UNCHANGED <<connect_attempts, clock, configVars, captureVars, analysisVars>>

\* CheckEmpty with the bug of a missing empty-capture test
CheckEmptySkipped ==
    /\ pc = "disconnected"
    /\ pc' = "analyze_lp"
    /\ UNCHANGED <<conn, connect_attempts, clock, configVars, captureVars,
                   analysisVars, exit_code, loop_exit>>

\* lines 254-258
CheckEmpty ==
    /\ pc = "disconnected"
    /\ IF Flatten(captured_ticks) = <<>>
       THEN /\ pc' = "exit"
            /\ exit_code' = 1
       ELSE /\ pc' = "analyze_lp"
            /\ UNCHANGED exit_code
    /\ UNCHANGED <<conn, connect_attempts, clock, configVars, captureVars,
                   analysisVars, loop_exit>>

\* An analyzer raises KeyError: the traceback ends the process with status 1.
Crash(name) ==
    /\ pc' = "exit"
    /\ exit_code' = 1
    /\ invoked' = invoked \cup {name}
    /\ UNCHANGED <<lp_sources, evidence, verdict>>

\* AnalyzeLp with the bug of tallying the labels of every accepted tick,
\* stored or not
AnalyzeLpAllAccepted ==
    /\ pc = "analyze_lp"
    /\ LET ticks == Flatten(captured_ticks)
       IN  /\ lp_sources' = lp_sources \cup {LpOf(ticks[i]) : i \in DOMAIN ticks} \cup dropped
           /\ evidence' = evidence \o LpEvidence(LpKeys(ticks))
    /\ invoked' = invoked \cup {"analyze_lp"}
    /\ pc' = "analyze_price_patterns"
    /\ UNCHANGED <<conn, connect_attempts, clock, configVars, captureVars, verdict,
                   exit_code, loop_exit>>

\* line 260
AnalyzeLp ==
    /\ pc = "analyze_lp"
    /\ LET ticks == Flatten(captured_ticks)
       IN  /\ lp_sources' = lp_sources \cup {LpOf(ticks[i]) : i \in DOMAIN ticks}
           /\ evidence' = evidence \o LpEvidence(LpKeys(ticks))
    /\ invoked' = invoked \cup {"analyze_lp"}
    /\ pc' = "analyze_price_patterns"
    /\ UNCHANGED <<conn, connect_attempts, clock, configVars, captureVars, verdict,
                   exit_code, loop_exit>>

\* line 261
AnalyzePricePatterns ==
    /\ pc = "analyze_price_patterns"
    /\ LET ticks == Flatten(captured_ticks)
       IN  IF PriceRaises(ticks)
           THEN Crash("analyze_price_patterns")
           ELSE /\ evidence' = evidence \o PriceEvidence(ticks)
                /\ invoked' = invoked \cup {"analyze_price_patterns"}
                /\ pc' = "analyze_timestamps"
                /\ UNCHANGED <<lp_sources, verdict, exit_code>>
    /\ UNCHANGED <<conn, connect_attempts, clock, configVars, captureVars, loop_exit>>

\* line 262
AnalyzeTimestamps ==
    /\ pc = "analyze_timestamps"
    /\ LET ticks == Flatten(captured_ticks)
       IN  IF ~Reads(ticks, "timestamp")
           THEN Crash("analyze_timestamps")
           ELSE /\ evidence' = evidence \o TimestampEvidence(ticks)
                /\ invoked' = invoked \cup {"analyze_timestamps"}
                /\ pc' = "analyze_spread"
                /\ UNCHANGED <<lp_sources, verdict, exit_code>>
    /\ UNCHANGED <<conn, connect_attempts, clock, configVars, captureVars, loop_exit>>

\* line 263
AnalyzeSpread ==
    /\ pc = "analyze_spread"
    /\ LET ticks == Flatten(captured_ticks)
       IN  IF ~(Reads(ticks, "ask") /\ Reads(ticks, "bid"))
           THEN Crash("analyze_spread")
           ELSE /\ evidence' = evidence \o SpreadEvidence(ticks)
                /\ invoked' = invoked \cup {"analyze_spread"}
                /\ pc' = "generate_verdict"
                /\ UNCHANGED <<lp_sources, verdict, exit_code>>
    /\ UNCHANGED <<conn, connect_attempts, clock, configVars, captureVars, loop_exit>>

\* line 264, and the return of asyncio.run
GenerateVerdict ==
    /\ pc = "generate_verdict"
    /\ verdict' = Verdict(lp_sources, evidence)
    /\ invoked' = invoked \cup {"generate_verdict"}
    /\ pc' = "exit"
    /\ exit_code' = 0
    /\ UNCHANGED <<conn, connect_attempts, clock, configVars, captureVars, lp_sources,
                   evidence, loop_exit>>

Recv ==
    \E m \in Messages, d \in Delays :
        \/ RecvNotJson(m, d)
        \/ RecvNonObject(m, d)
        \/ RecvOther(m, d)
        \/ RecvTick(m, d)

Analysis ==
    \/ CheckEmpty
    \/ AnalyzeLp
    \/ AnalyzePricePatterns
    \/ AnalyzeTimestamps
    \/ AnalyzeSpread
    \/ GenerateVerdict

Next ==
    \/ ConnectOk
    \/ ConnectFail
    \/ CheckDeadline
    \/ RecvTimeout
    \/ Recv
    \/ RecvError
    \/ Interrupt
    \/ Analysis

Spec == Init /\ [][Next]_vars

\* ------------------------------------------- the analyzers on their own
\* The analysis stage started from the buffers a session can hold when its
\* deadline ends the loop (the configuration is the source's: no buffer of at
\* most MaxLen ticks is full, so no such session ended by completion).
Labels == {"SIMULATED", "YOFX", Absent, "LMAX"}
Bids   == {0, MICRO, 2 * MICRO + 1, 3 * MICRO}

AnalysisTick(sym, i, lp, bid, spread, stamp) ==
    [symbol |-> sym, lp |-> lp, missing |-> "none", bid |-> bid,
     ask |-> bid + spread, timestamp |-> stamp, seq |-> i]

Entry(sym, ticks) == IF ticks = <<>> THEN <<>> ELSE <<[symbol |-> sym, ticks |-> ticks]>>

\* bids that differ from tick to tick by ever larger steps, that rise by the
\* constant step 0.0001, or that never move
BidPattern(p, i) ==
    IF p = "walk" THEN i * i * MICRO
    ELSE IF p = "climb" THEN i * 100 * MICRO
    ELSE 0

\* timestamps a second apart / all the same
StampPattern(p, i) == IF p = "spaced" THEN i * SECOND ELSE 0

PatternTicks(sym, n, lp, bids, stamps, offset) ==
    [i \in 1 .. n |->
        AnalysisTick(sym, i, lp, BidPattern(bids, i), MICRO, StampPattern(stamps, offset + i))]

\* one symbol with every bid sequence, beside a second symbol of constant bid
PriceInputs ==
    {IF first THEN a \o b ELSE b \o a :
        a \in {Entry(EURUSD, [i \in 1 .. n |-> AnalysisTick(EURUSD, i, "YOFX", bids[i], MICRO, i * i)]) :
                  n \in 1 .. MaxLen, bids \in [1 .. MaxLen -> Bids]},
        b \in {Entry(OKCOIN, PatternTicks(OKCOIN, n, "YOFX", "flat", "spaced", MaxLen)) :
                  n \in {0, 3, 4}},
        first \in BOOLEAN}

\* two symbols, each with its own length, label and bid pattern
VerdictInputs ==
    {Entry(EURUSD, PatternTicks(EURUSD, n1, lp1, b1, stamps, 0))
       \o Entry(OKCOIN, PatternTicks(OKCOIN, n2, lp2, b2, stamps, MaxLen)) :
        n1 \in 0 .. MaxLen, n2 \in 0 .. MaxLen,
        lp1 \in Labels \ {"LMAX"}, lp2 \in Labels \ {"LMAX"},
        b1 \in {"flat", "climb", "walk"}, b2 \in {"flat", "climb", "walk"},
        stamps \in {"burst", "spaced"}}

\* one symbol with every label sequence
LabelInputs ==
    {Entry(EURUSD, [i \in 1 .. n |-> AnalysisTick(EURUSD, i, lps[i], 0, MICRO, i * i)]) :
        n \in 1 .. 3, lps \in [1 .. 3 -> Labels \cup {"simulated", "UNKNOWN"}]}

\* spreads: negative (ask < bid), one micro, one micro and a fifth, two micro
Spreads == {-MICRO, MICRO, MICRO + 1, 2 * MICRO}

\* a single tick of a second symbol whose ask is below its bid
Crossed == Entry(OKCOIN, <<AnalysisTick(OKCOIN, 1, "YOFX", 0, -MICRO, 0)>>)

\* n ticks of which the first `odd` have a spread of their own each and the
\* others share one spread
LongTicks(sym, n, odd) ==
    [i \in 1 .. n |->
        AnalysisTick(sym, i, "YOFX", 0, IF i <= odd THEN (i + 1) * MICRO ELSE MICRO, i * i)]

\* one symbol with every spread sequence, and with buffers whose spreads are
\* (nearly) all the same, of every length up to the capacity of a session
\* configured one above the default
SpreadInputs ==
    {a \o b :
        a \in {Entry(EURUSD, [i \in 1 .. n |-> AnalysisTick(EURUSD, i, "YOFX", 0, spreads[i], i * i)]) :
                  n \in 1 .. MaxLen, spreads \in [1 .. MaxLen -> Spreads]}
              \cup {Entry(EURUSD, LongTicks(EURUSD, n, odd)) :
                       n \in 1 .. CAPTURE_COUNT + 1, odd \in 0 .. 1},
        b \in {<<>>, Crossed}}

\* timestamps half a second apart
Stamps == 0 .. 2

StampedTicks(sym, stamps, from, to) ==
    [i \in 1 .. (to - from + 1) |->
        AnalysisTick(sym, i, "YOFX", 0, MICRO, stamps[from + i - 1])]

\* the ticks of one arrival order, held by one symbol or split between two
Pooled(stamps, n, split) ==
    LET k == IF split THEN n \div 2 ELSE n
    IN  Entry(EURUSD, StampedTicks(EURUSD, stamps, 1, k))
          \o Entry(OKCOIN, StampedTicks(OKCOIN, stamps, k + 1, n))

\* every short timestamp sequence in every arrival order, and evenly spaced
\* timestamps (half a second, one second, a second and a half apart) arriving
\* in ascending or in descending order
TimestampInputs ==
    {Pooled(stamps, n, split) :
        n \in 1 .. MaxLen, stamps \in [1 .. MaxLen -> Stamps], split \in BOOLEAN}
      \cup {Pooled([i \in 1 .. MaxLen |-> IF up THEN i * step ELSE (MaxLen - i) * step],
                   n, split) :
              n \in 1 .. MaxLen, step \in 1 .. (SECOND + 1), up \in BOOLEAN,
              split \in BOOLEAN}

InitAnalysis ==
    /\ \/ captured_ticks \in PriceInputs
       \/ captured_ticks \in VerdictInputs
       \/ captured_ticks \in LabelInputs
       \/ captured_ticks \in SpreadInputs
       \/ captured_ticks \in TimestampInputs
    /\ capture_count = IF \A i \in DOMAIN captured_ticks :
                              Len(captured_ticks[i].ticks) <= CAPTURE_COUNT
                       THEN CAPTURE_COUNT
                       ELSE CAPTURE_COUNT + 1
    /\ timeout = TIMEOUT
    /\ pc = "disconnected"
    /\ conn = "closed"
    /\ connect_attempts = 1
    /\ clock = TIMEOUT * SECOND + 1
    /\ total_tick_count = Len(Flatten(captured_ticks))
    /\ symbols = Range(Keys(captured_ticks))
    /\ arrived = [sym \in Symbols |-> Len(TicksOf(captured_ticks, sym))]
    /\ dropped = {}
    /\ lp_sources = {}
    /\ evidence = <<>>
    /\ verdict = NoVerdict
    /\ exit_code = Running
    /\ loop_exit = "deadline"
    /\ invoked = {}

SpecAnalysis == InitAnalysis /\ [][Analysis]_vars

\* ------------------------------------------------------------ properties
AllTicks == Flatten(captured_ticks)

\* The polarity of an evidence record: the marker its message starts with.
Polarity(e) == IF e[1] = CHECK THEN "SupportsReal" ELSE "SupportsSimulated"

CountOf(p) == Cardinality({i \in DOMAIN evidence : Polarity(evidence[i]) = p})

\* C1: whenever a verdict was produced from buffers in which some tick
\* carries the label SIMULATED, the verdict is SIMULATED, whatever else was
\* observed.
C1_SimulatedLabelWins ==
    (verdict # NoVerdict /\ \E i \in DOMAIN AllTicks : AllTicks[i].lp = "SIMULATED")
        => verdict = "SIMULATED"

\* C1 witness: SIMULATED although YOFX was observed too and the evidence for
\* real data outnumbers the evidence for simulation.
C1_Witness ==
    /\ verdict = "SIMULATED"
    /\ \E i \in DOMAIN AllTicks : AllTicks[i].lp = "SIMULATED"
    /\ \E i \in DOMAIN AllTicks : AllTicks[i].lp = "YOFX"
    /\ CountOf("SupportsReal") > CountOf("SupportsSimulated")

\* C2: the verdict is the first match of the table over the observed labels
\* and the numbers of SupportsReal and SupportsSimulated records: SIMULATED
\* label; YOFX label and more real than simulated; more simulated than real;
\* otherwise inconclusive.
C2_DecisionTable ==
    verdict # NoVerdict =>
        verdict =
            IF "SIMULATED" \in lp_sources THEN "SIMULATED"
            ELSE IF "YOFX" \in lp_sources
                    /\ CountOf("SupportsReal") > CountOf("SupportsSimulated")
                 THEN "REAL"
            ELSE IF CountOf("SupportsSimulated") > CountOf("SupportsReal")
                 THEN "LIKELY_SIMULATED"
            ELSE "INCONCLUSIVE"

\* The accepted tick messages of a set of symbols.
RECURSIVE Accepted(_)
Accepted(syms) ==
    IF syms = {} THEN 0
    ELSE LET sym == CHOOSE x \in syms : TRUE
         IN  arrived[sym] + Accepted(syms \ {sym})

\* C3: while the session has not failed, each buffer holds the first
\* min(n, capture_count) accepted ticks of its symbol in arrival order, and
\* total_tick_count is the number of all accepted ticks.
C3_BufferIsPrefix ==
    /\ \A sym \in Symbols :
          LET st == TicksOf(captured_ticks, sym)
          IN  /\ Len(st) <= capture_count
              /\ Len(st) = Min(arrived[sym], capture_count)
              /\ \A i \in DOMAIN st : st[i].symbol = sym /\ st[i].seq = i
    /\ loop_exit # "error" => total_tick_count = Accepted(Symbols)

\* C3 witness: capture goes on while two ticks of one symbol have been dropped.
C3_Witness ==
    /\ Capturing
    /\ \E sym \in Symbols : arrived[sym] >= capture_count + 2
    /\ \E sym \in Symbols : arrived[sym] \in 1 .. (capture_count - 1)

\* C4: connect is attempted at most once; after a failed connect, and after
\* a loop that ended with nothing captured, the process exits with status 1
\* and no analyzer and no verdict computation was invoked.
C4_NoAnalysisWithoutTicks ==
    /\ connect_attempts <= 1
    /\ (connect_attempts = 1 /\ conn = "none") =>
          pc = "exit" /\ exit_code = 1 /\ invoked = {} /\ verdict = NoVerdict
    /\ AllTicks = <<>> => invoked = {} /\ verdict = NoVerdict
    /\ (AllTicks = <<>> /\ loop_exit \in {"complete", "deadline"} /\ pc = "exit") =>
          exit_code = 1

\* C4 witness: the deadline ended a loop that captured nothing, and the
\* process has exited with status 1.
C4_Witness ==
    /\ pc = "exit"
    /\ loop_exit = "deadline"
    /\ AllTicks = <<>>
    /\ exit_code = 1
    /\ invoked = {}

\* A message that is no valid message record.
Malformed(m) ==
    \/ m.form \in {"notjson", "nonobject"}
    \/ m.form = "object" /\ m.type = "tick" /\ m.missing # "none"

\* C5: a step that reads a malformed message goes on to the next iteration
\* and leaves the buffers, the counters and the session as they were.
C5_MalformedSkipped ==
    [][(\E m \in Messages, d \in Delays :
            /\ Malformed(m)
            /\ RecvNotJson(m, d) \/ RecvNonObject(m, d) \/ RecvTick(m, d))
        => /\ pc' = "check"
           /\ exit_code' = Running
           /\ UNCHANGED captureVars]_vars

\* The symbols whose buffer has reached the capacity.
FullBuffers == {sym \in Symbols : Len(TicksOf(captured_ticks, sym)) = capture_count}

CompletionCondition ==
    /\ Cardinality(FullBuffers) >= Min(3, Cardinality(symbols))
    /\ total_tick_count >= capture_count

\* C6: the loop ends by completion in exactly the steps that finish
\* processing an accepted tick and leave at least min(3, symbols seen) full
\* buffers and total_tick_count >= capture_count; so at every completion
\* exit that many buffers are full.
C6_CompletionExactly ==
    /\ [](loop_exit = "complete" => CompletionCondition)
    /\ [][(loop_exit # "complete" /\ loop_exit' = "complete")
            <=> /\ Capturing
                /\ total_tick_count' = total_tick_count + 1
                /\ pc' # "exit"
                /\ CompletionCondition']_vars

\* C6 witness: a completion exit with four symbols seen and three full buffers.
C6_Witness ==
    /\ loop_exit = "complete"
    /\ Cardinality(symbols) = 4
    /\ Cardinality(FullBuffers) = 3

\* C7: a session whose loop the deadline ended with at least one tick
\* captured ends with a verdict.
C7_DeadlineThenVerdict ==
    (pc = "exit" /\ loop_exit = "deadline" /\ AllTicks # <<>>) => verdict # NoVerdict

\* C8: a read that times out and a read of a message of another type leave
\* the buffers, the counter, the symbols and the evidence unchanged, and the
\* loop goes on with its next iteration.
C8_IgnoredReads ==
    [][(RecvTimeout \/ \E m \in Messages, d \in Delays : RecvOther(m, d))
        => /\ UNCHANGED <<captured_ticks, total_tick_count, symbols, evidence>>
           /\ pc' = "check"
           /\ conn' = "open"
           /\ loop_exit' = "none"
           /\ exit_code' = Running]_vars

\* C8 witness: the loop is at its next iteration after a read timeout, with
\* the ticks captured before it still there.
C8_Witness ==
    /\ pc = "check"
    /\ conn = "open"
    /\ clock >= RECV_TIMEOUT * SECOND
    /\ clock <= timeout * SECOND
    /\ total_tick_count > 0

\* C9: the connection is never open once the loop has been left, and an
\* interrupted session has exited with status 0 with no analyzer invoked.
C9_ConnectionClosed ==
    /\ ~Capturing => conn # "open"
    /\ invoked # {} => conn = "closed"
    /\ loop_exit = "interrupt" =>
          pc = "exit" /\ exit_code = 0 /\ invoked = {} /\ verdict = NoVerdict

\* C9 witness: an interrupt ended a capture that had already stored ticks.
C9_Witness ==
    /\ loop_exit = "interrupt"
    /\ conn = "closed"
    /\ AllTicks # <<>>
    /\ exit_code = 0

\* The multiple of 1e-6 nearest to a price difference.
Nearest(x) ==
    CHOOSE k \in {MICRO * j : j \in ((x \div MICRO) - 1) .. ((x \div MICRO) + 1)} :
        2 * (IF x > k THEN x - k ELSE k - x) < MICRO

\* d of C10: the distinct successive bid differences of a buffer, rounded
DistinctSteps(st) ==
    Cardinality({Nearest(st[j + 1].bid - st[j].bid) : j \in 1 .. (Len(st) - 1)})

PriceRecords(sym) ==
    {i \in DOMAIN evidence :
        evidence[i] \in {<<WARN, " ">> \o sym \o <<": Low regularity ratio">>,
                         <<CHECK, " ">> \o sym \o <<": High price variation">>}}

\* C10: once analyze_price_patterns has run, the evidence holds exactly one
\* price record for each symbol with at least 3 ticks and none for the
\* others, and the record is SupportsSimulated iff d / (n - 1) < 0.5.
C10_PriceEvidence ==
    "analyze_price_patterns" \in invoked =>
        \A sym \in Symbols :
            LET st == TicksOf(captured_ticks, sym)
            IN  IF Len(st) >= 3
                THEN /\ Cardinality(PriceRecords(sym)) = 1
                     /\ \A i \in PriceRecords(sym) :
                           Polarity(evidence[i]) = "SupportsSimulated"
                               <=> 2 * DistinctSteps(st) < Len(st) - 1
                ELSE PriceRecords(sym) = {}

\* C10 witness: four ticks whose bid rises by a constant step gave a
\* SupportsSimulated record.
C10_Witness ==
    /\ "analyze_price_patterns" \in invoked
    /\ \E sym \in Symbols :
          LET st == TicksOf(captured_ticks, sym)
          IN  /\ Len(st) = 4
              /\ \A j \in 1 .. 3 : st[j + 1].bid - st[j].bid = 100 * MICRO
              /\ \E i \in PriceRecords(sym) : Polarity(evidence[i]) = "SupportsSimulated"

\* u of C11: the distinct spreads of a buffer, rounded
DistinctSpreads(st) == Cardinality({Nearest(st[j].ask - st[j].bid) : j \in DOMAIN st})

SpreadRecords(sym) ==
    {i \in DOMAIN evidence :
        evidence[i] \in {<<WARN, " ">> \o sym \o <<": Perfectly consistent spread">>,
                         <<CHECK, " ">> \o sym \o <<": Variable spread">>}}

\* C11: once analyze_spread has run, the evidence holds exactly one spread
\* record for each symbol with a tick, and the record is SupportsSimulated
\* iff 1 - u / n > 0.95 (that is, 20 (n - u) > 19 n).
C11_SpreadEvidence ==
    "analyze_spread" \in invoked =>
        \A sym \in Symbols :
            LET st == TicksOf(captured_ticks, sym)
            IN  IF Len(st) >= 1
                THEN /\ Cardinality(SpreadRecords(sym)) = 1
                     /\ \A i \in SpreadRecords(sym) :
                           Polarity(evidence[i]) = "SupportsSimulated"
                               <=> 20 * (Len(st) - DistinctSpreads(st)) > 19 * Len(st)
                ELSE SpreadRecords(sym) = {}

\* C11 witness: ten ticks of one identical spread, and a single tick whose
\* ask is below its bid, each gave a SupportsReal record.
C11_Witness ==
    /\ "analyze_spread" \in invoked
    /\ LET st == TicksOf(captured_ticks, EURUSD)
       IN  /\ Len(st) = 10
           /\ \A j \in DOMAIN st : st[j].ask - st[j].bid = MICRO
           /\ \E i \in SpreadRecords(EURUSD) : Polarity(evidence[i]) = "SupportsReal"
    /\ LET st == TicksOf(captured_ticks, OKCOIN)
       IN  /\ Len(st) = 1
           /\ st[1].ask < st[1].bid
           /\ \E i \in SpreadRecords(OKCOIN) : Polarity(evidence[i]) = "SupportsReal"

\* the timestamps of all buffered ticks, whatever their symbol
PooledStamps == {AllTicks[i].timestamp : i \in DOMAIN AllTicks}

\* the distinct gaps between neighbours of the sorted pool: the steps between
\* neighbouring values, and 0 when a value occurs twice
GapValues ==
    LET pool == PooledStamps
    IN  {p[2] - p[1] : p \in {q \in pool \X pool :
                                /\ q[1] < q[2]
                                /\ ~\E c \in pool : q[1] < c /\ c < q[2]}}
          \cup (IF Cardinality(pool) < Len(AllTicks) THEN {0} ELSE {})

\* the sum of the gaps: latest minus earliest timestamp
StampSpan ==
    LET pool == PooledStamps
    IN  (CHOOSE hi \in pool : \A t \in pool : t <= hi)
          - (CHOOSE lo \in pool : \A t \in pool : lo <= t)

TimestampRecords ==
    {i \in DOMAIN evidence :
        evidence[i] \in {<<WARN, " Very regular timestamp intervals">>,
                         <<CHECK, " Irregular timestamp intervals">>}}

\* C12: once analyze_timestamps has run, the evidence holds exactly one
\* timestamp record when at least 2 ticks are buffered over all symbols and
\* none otherwise; the record is SupportsSimulated iff the distinct gaps of
\* the sorted pool are fewer than 0.3 of the gaps and the mean gap is below
\* one second.
C12_TimestampEvidence ==
    "analyze_timestamps" \in invoked =>
        IF Len(AllTicks) >= 2
        THEN /\ Cardinality(TimestampRecords) = 1
             /\ \A i \in TimestampRecords :
                   Polarity(evidence[i]) = "SupportsSimulated"
                       <=> /\ 10 * Cardinality(GapValues) < 3 * (Len(AllTicks) - 1)
                           /\ StampSpan < SECOND * (Len(AllTicks) - 1)
        ELSE TimestampRecords = {}

\* C12 witness: five ticks of two symbols whose pooled gaps are
\* [1, 1, 1, 1] seconds gave a SupportsReal record.
C12_Witness ==
    /\ "analyze_timestamps" \in invoked
    /\ Len(AllTicks) = 5
    /\ TicksOf(captured_ticks, EURUSD) # <<>>
    /\ TicksOf(captured_ticks, OKCOIN) # <<>>
    /\ Cardinality(PooledStamps) = 5
    /\ GapValues = {SECOND}
    /\ \E i \in TimestampRecords : Polarity(evidence[i]) = "SupportsReal"

LpRecords(text) == {i \in DOMAIN evidence : evidence[i] = text}

Labelled(lp) == \E i \in DOMAIN AllTicks : AllTicks[i].lp = lp

\* C13: once analyze_lp has run, the evidence holds one SupportsSimulated
\* record iff some buffered tick is labelled exactly SIMULATED (however many
\* are), one SupportsReal record iff some buffered tick is labelled exactly
\* YOFX, and analyze_lp added nothing else: at most two records.
C13_LpEvidence ==
    "analyze_lp" \in invoked =>
        LET simulated == LpRecords(<<CROSS, " LP field shows SIMULATED">>)
            yofx      == LpRecords(<<CHECK, " LP field shows YOFX">>)
        IN  /\ Cardinality(simulated) = IF Labelled("SIMULATED") THEN 1 ELSE 0
            /\ Cardinality(yofx) = IF Labelled("YOFX") THEN 1 ELSE 0
            /\ \A i \in simulated : Polarity(evidence[i]) = "SupportsSimulated"
            /\ \A i \in yofx : Polarity(evidence[i]) = "SupportsReal"
            /\ pc = "analyze_price_patterns"
                  => Len(evidence) = Cardinality(simulated) + Cardinality(yofx)
            /\ Labelled(Absent) => "UNKNOWN" \in lp_sources

\* C13 witness: two ticks labelled SIMULATED and one without a label gave
\* one record in all.
C13_Witness ==
    /\ pc = "analyze_price_patterns"
    /\ Cardinality({i \in DOMAIN AllTicks : AllTicks[i].lp = "SIMULATED"}) = 2
    /\ Labelled(Absent)
    /\ Len(evidence) = 1
    /\ Polarity(evidence[1]) = "SupportsSimulated"

\* C14: in a session of the default capacity of 20 per symbol no buffer
\* holds more than 20 ticks and no spread record is SupportsSimulated.
C14_NoSimulatedSpread ==
    capture_count = CAPTURE_COUNT =>
        \A sym \in Symbols :
            /\ Len(TicksOf(captured_ticks, sym)) <= CAPTURE_COUNT
            /\ \A i \in SpreadRecords(sym) : Polarity(evidence[i]) = "SupportsReal"

\* C14 witness: a full buffer of 20 ticks of one identical spread
\* (consistency exactly 0.95) gave a SupportsReal record.
C14_Witness ==
    /\ capture_count = CAPTURE_COUNT
    /\ "analyze_spread" \in invoked
    /\ LET st == TicksOf(captured_ticks, EURUSD)
       IN  /\ Len(st) = CAPTURE_COUNT
           /\ DistinctSpreads(st) = 1
           /\ \E i \in SpreadRecords(EURUSD) : Polarity(evidence[i]) = "SupportsReal"

\* the labels of the buffered ticks, an absent label as UNKNOWN
BufferedLabels == {LpOf(AllTicks[i]) : i \in DOMAIN AllTicks}

\* what the four analyzers derive from the buffers alone
BufferedEvidence ==
    LpEvidence(LpKeys(AllTicks)) \o PriceEvidence(AllTicks)
        \o TimestampEvidence(AllTicks) \o SpreadEvidence(AllTicks)

\* C15: at verdict time the buffers hold none of the ticks that arrived after
\* their symbol's buffer was full, the label set is exactly the set of labels
\* of the buffered ticks, and the evidence and the verdict are those derived
\* from the buffers alone: a dropped tick adds neither label nor evidence.
C15_VerdictFromBuffers ==
    verdict # NoVerdict =>
        /\ \A i \in DOMAIN AllTicks : AllTicks[i].seq <= capture_count
        /\ lp_sources = BufferedLabels
        /\ evidence = BufferedEvidence
        /\ verdict = Verdict(BufferedLabels, BufferedEvidence)

\* C15 witness: a verdict other than SIMULATED was produced in a session
\* that dropped a tick labelled SIMULATED.
C15_Witness ==
    /\ verdict \notin {NoVerdict, "SIMULATED"}
    /\ "SIMULATED" \in dropped
    /\ "SIMULATED" \notin lp_sources

==========================================================================
